---- MODULE Spec2Model ----
(***************************************************************************)
(* A model of the rtow path tracer: the bounding-volume hierarchy          *)
(* (scene/bvh.rs), the sphere intersection (geom.rs), the slab test        *)
(* (math.rs), the parallel pixel loop and the path integrator (render.rs). *)
(*                                                                         *)
(* Numbers.  Geometry lives on an integer lattice with axis-aligned rays,  *)
(* so every quantity Sphere::hit and Aabb::hit compute is an integer, an   *)
(* integer plus or minus EPSILON, an infinity or a NaN, and the f64        *)
(* arithmetic of the source is exact on them.  A number is a record        *)
(* [u, e, nan] standing for u + e * EPSILON (EPSILON = 1e-9, so the order  *)
(* is lexicographic), with u = Infinity / -Infinity for the infinities.    *)
(***************************************************************************)
EXTENDS Integers, Sequences, FiniteSets, TLC

\* ------------------------------------------------------------------ bounds

\* Largest number of primitives handed to bvh::build.
MaxPrims == 4

\* ------------------------------------------------------------------ numbers

\* f64::INFINITY: larger than every finite value of the model.
Infinity == 1000000

R(u, e) == [u |-> u, e |-> e, nan |-> FALSE]
Num(u) == R(u, 0)
NaN == [u |-> 0, e |-> 0, nan |-> TRUE]
INF == Num(Infinity)
NEG_INF == Num(-Infinity)

\* math.rs: pub const EPSILON: f64 = 1e-9, as a number of the model.
EPSILON == R(0, 1)

\* IEEE comparisons: every comparison with a NaN is false.
Lt(a, b) == /\ ~a.nan /\ ~b.nan
            /\ (a.u < b.u \/ (a.u = b.u /\ a.e < b.e))
Le(a, b) == /\ ~a.nan /\ ~b.nan
            /\ (a.u < b.u \/ (a.u = b.u /\ a.e <= b.e))

\* f64::max and f64::min: a NaN operand is ignored.
FMax(a, b) == IF b.nan THEN a ELSE IF a.nan THEN b ELSE IF Lt(a, b) THEN b ELSE a
FMin(a, b) == IF b.nan THEN a ELSE IF a.nan THEN b ELSE IF Lt(b, a) THEN b ELSE a

\* x - EPSILON for a finite x (render.rs: sample.t - EPSILON).
MinusEps(x) == R(x.u, x.e - 1)

\* f64::sqrt on the perfect squares the lattice produces.
Sqrt(n) == CHOOSE r \in 0..n : r * r = n

\* ------------------------------------------------------------------ vectors

Axes == 1..3
Vec(x, y, z) == <<x, y, z>>
VSub(a, b) == [i \in Axes |-> a[i] - b[i]]
VAdd(a, b) == [i \in Axes |-> a[i] + b[i]]
Dot(a, b) == a[1] * b[1] + a[2] * b[2] + a[3] * b[3]
NormSquared(a) == Dot(a, a)
IMin(a, b) == IF a < b THEN a ELSE b
IMax(a, b) == IF a < b THEN b ELSE a
\* nalgebra inf / sup: componentwise minimum / maximum.
VInf(a, b) == [i \in Axes |-> IMin(a[i], b[i])]
VSup(a, b) == [i \in Axes |-> IMax(a[i], b[i])]

\* nalgebra imax: index of the largest component, the first one on ties.
VIMax(a) == IF a[2] > a[1]
            THEN (IF a[3] > a[2] THEN 3 ELSE 2)
            ELSE (IF a[3] > a[1] THEN 3 ELSE 1)

\* ------------------------------------------------------------------ Aabb (math.rs)

Aabb_new(a, b) == [min_point |-> VInf(a, b), max_point |-> VSup(a, b)]
Aabb_at_point(p) == [min_point |-> p, max_point |-> p]
Aabb_extend(box, p) ==
    [min_point |-> VInf(box.min_point, p), max_point |-> VSup(box.max_point, p)]
Aabb_union(a, b) ==
    [min_point |-> VInf(a.min_point, b.min_point),
     max_point |-> VSup(a.max_point, b.max_point)]
Aabb_centroid(box) ==
    [i \in Axes |-> (box.min_point[i] + box.max_point[i]) \div 2]

\* x * inv_d for an integer x and inv_d = 1 / d, d a component of an
\* axis-aligned unit direction: 1, -1, or +0.0 (inv_d = +inf; 0 * inf = NaN).
MulInv(x, d) ==
    IF d = 1 THEN Num(x)
    ELSE IF d = -1 THEN Num(-x)
    ELSE IF x > 0 THEN INF ELSE IF x < 0 THEN NEG_INF ELSE NaN

\* One axis of the slab loop: the shrunk interval, or "miss".
SlabAxis(box, ray, i, iv) ==
    LET d == ray.dir[i]
        a == MulInv(box.min_point[i] - ray.origin[i], d)
        b == MulInv(box.max_point[i] - ray.origin[i], d)
        t0 == IF d >= 0 THEN a ELSE b
        t1 == IF d >= 0 THEN b ELSE a
        lo == FMax(iv.t_min, t0)
        hi == FMin(iv.t_max, t1)
    IN  [t_min |-> lo, t_max |-> hi, miss |-> iv.miss \/ Le(hi, lo)]

\* Aabb::hit(ray, t_min, t_max): the three-axis slab test.
Aabb_hit(box, ray, t_min, t_max) ==
    LET iv0 == [t_min |-> t_min, t_max |-> t_max, miss |-> FALSE]
        iv1 == SlabAxis(box, ray, 1, iv0)
        iv2 == SlabAxis(box, ray, 2, iv1)
        iv3 == SlabAxis(box, ray, 3, iv2)
    IN  ~iv3.miss

\* ------------------------------------------------------------------ Sphere (geom.rs)

None == [some |-> FALSE]

Sphere_new(center, radius) == [center |-> center, radius |-> radius]

Sphere_aabb(s) ==
    LET radius_vec == Vec(s.radius, s.radius, s.radius)
    IN  Aabb_new(VSub(s.center, radius_vec), VAdd(s.center, radius_vec))

\* Sphere: the parameters t1 <= t2 at which the ray meets the surface, none
\* when the discriminant is negative.
Sphere_roots(s, ray) ==
    LET oc == VSub(ray.origin, s.center)
        b == Dot(oc, ray.dir)
        c == NormSquared(oc) - s.radius * s.radius
        discriminant == b * b - c
    IN  IF discriminant < 0 THEN {}
        ELSE LET radical == Sqrt(discriminant)
                 t1 == -b - radical
                 t2 == -b + radical
             IN  { Num(t1), Num(t2) }

\* ------------------------------------------------------------------ inputs

\* The spheres primitives are drawn from: even lattice centres, radius 1 or 2,
\* so that every discriminant an axis-aligned lattice ray sees is a square.
SpherePool ==
    { Sphere_new(Vec(0, 0, 0), 1), Sphere_new(Vec(4, 0, 0), 1),
      Sphere_new(Vec(2, 0, 0), 2), Sphere_new(Vec(0, 4, 0), 1) }

Ray_new(origin, dir) == [origin |-> origin, dir |-> dir]

\* The rays queried: outside, inside and on the surface of the spheres,
\* through centres and tangent, along every axis and in both senses.
RayPool ==
    { Ray_new(Vec(-4, 0, 0), Vec(1, 0, 0)), Ray_new(Vec(0, 0, 0), Vec(1, 0, 0)),
      Ray_new(Vec(2, 0, 0), Vec(1, 0, 0)),  Ray_new(Vec(8, 0, 0), Vec(-1, 0, 0)),
      Ray_new(Vec(0, -4, 0), Vec(0, 1, 0)), Ray_new(Vec(4, 0, -6), Vec(0, 0, 1)) }

\* The bounds queried: trace_ray's f64::INFINITY, and finite bounds of the
\* kind the shadow rays pass (a distance, a distance minus EPSILON).
TMaxPool == { INF, Num(1), Num(2), Num(4), MinusEps(Num(7)) }

SeqsUpTo(S, n) == UNION { [1..k -> S] : k \in 0..n }

\* ------------------------------------------------------------------ state

VARIABLES
    primitives,   \* the Vec<Primitive> handed to bvh::build (geometry only)
    bvh,          \* the tree: node id -> BvhNode; children of i are 2i, 2i+1
    stack,        \* the pending do_build calls, innermost first
    bphase,       \* "input", "building", "built", "queried", "panic"
    query         \* the last Scene::hit call: ray, t_max and its result

bvhVars == <<primitives, bvh, stack, bphase, query>>

NoQuery == [ray |-> Ray_new(Vec(0, 0, 0), Vec(1, 0, 0)), t_max |-> INF, result |-> None]

InitBvh ==
    /\ primitives \in SeqsUpTo(SpherePool, MaxPrims)
    /\ bvh = << >>
    /\ stack = << >>
    /\ bphase = "input"
    /\ query = NoQuery

\* ------------------------------------------------------------------ bvh.rs: build

\* build: tag every primitive with its bounds and their centroid.
Tagged(prims) ==
    [i \in 1..Len(prims) |->
        LET bounds == Sphere_aabb(prims[i])
        IN  [prim |-> i, bounds |-> bounds, centroid |-> Aabb_centroid(bounds)]]

RECURSIVE FoldUnion(_, _, _)
FoldUnion(tps, i, acc) ==
    IF i > Len(tps) THEN acc ELSE FoldUnion(tps, i + 1, Aabb_union(acc, tps[i].bounds))

RECURSIVE FoldExtend(_, _, _)
FoldExtend(tps, i, acc) ==
    IF i > Len(tps) THEN acc ELSE FoldExtend(tps, i + 1, Aabb_extend(acc, tps[i].centroid))

\* do_build: the union of the bounds of tagged_primitives.
BoundsOf(tps) == FoldUnion(tps, 2, tps[1].bounds)
\* do_build: the box spanned by the centroids.
CentroidBounds(tps) == FoldExtend(tps, 2, Aabb_at_point(tps[1].centroid))
\* do_build: the axis along which the centroids spread the most.
LongestAxis(tps) ==
    LET cb == CentroidBounds(tps) IN VIMax(VSub(cb.max_point, cb.min_point))

\* A split that peels one primitive off instead of halving.
Mid_peel(n) == 1

\* A split point rounded the other way: two primitives split into none and two.
Mid_low(n) == (n - 1) \div 2

\* do_build: let mid = tagged_primitives.len() / 2.
Mid(n) == n \div 2

Perms(n) == { p \in [1..n -> 1..n] : \A i, j \in 1..n : i # j => p[i] # p[j] }

\* select_nth_unstable_by(mid, cmp): any reordering that puts at (0-based)
\* index mid an element no smaller than those before it and no larger than
\* those after it.  The order inside the two sides is unspecified.
SelectNth(tps, mid, axis) ==
    { [i \in 1..Len(tps) |-> tps[p[i]]] : p \in
        { q \in Perms(Len(tps)) :
            /\ \A i \in 1..mid :
                  tps[q[i]].centroid[axis] <= tps[q[mid + 1]].centroid[axis]
            /\ \A j \in (mid + 2)..Len(tps) :
                  tps[q[mid + 1]].centroid[axis] <= tps[q[j]].centroid[axis] } }

Leaf(bounds, prim) == [bounds |-> bounds, leaf |-> TRUE, prim |-> prim]
Interior(bounds) == [bounds |-> bounds, leaf |-> FALSE, prim |-> 0]

Left(id) == 2 * id
Right(id) == 2 * id + 1
Root == 1

\* bvh::build: the call of do_build on the tagged primitives.
Build ==
    /\ bphase = "input"
    /\ stack' = << [id |-> Root, tps |-> Tagged(primitives)] >>
    /\ bphase' = "building"
    /\ UNCHANGED <<primitives, bvh, query>>

\* One call of do_build, taken from the top of the stack: none for an empty
\* vector (the caller's unwrap then panics, unless the caller is build), a
\* leaf for one primitive, otherwise an interior node whose two halves are
\* built next, the left one first.
DoBuild ==
    /\ bphase = "building"
    /\ stack # << >>
    /\ LET call == Head(stack)
           tps == call.tps
           rest == Tail(stack)
       IN  IF tps = << >> THEN
                /\ bphase' = IF call.id = Root THEN "built" ELSE "panic"
                /\ stack' = << >>
                /\ UNCHANGED bvh
           ELSE IF Len(tps) = 1 THEN
                /\ bvh' = (call.id :> Leaf(tps[1].bounds, tps[1].prim)) @@ bvh
                /\ stack' = rest
                /\ bphase' = IF rest = << >> THEN "built" ELSE "building"
           ELSE
                /\ \E sel \in SelectNth(tps, Mid(Len(tps)), LongestAxis(tps)) :
                      LET mid == Mid(Len(tps))
                          left == SubSeq(sel, 1, mid)
                          right == SubSeq(sel, mid + 1, Len(sel))
                      IN  stack' = << [id |-> Left(call.id), tps |-> left],
                                      [id |-> Right(call.id), tps |-> right] >> \o rest
                /\ bvh' = (call.id :> Interior(BoundsOf(tps))) @@ bvh
                /\ bphase' = "building"
    /\ UNCHANGED <<primitives, query>>

\* ------------------------------------------------------------------ bvh.rs: hit

\* The leaf's prim.geom.hit(ray, t_max) -> RawHitInfo?, paired with the
\* primitive: the smallest t with EPSILON <= t < t_max at which the ray
\* meets the surface, none when there is no such t.
Geom_hit(prim, ray, t_max) ==
    LET ts == { t \in Sphere_roots(primitives[prim], ray) :
                  Le(EPSILON, t) /\ Lt(t, t_max) }
    IN  IF ts = {} THEN None
        ELSE [some |-> TRUE, prim |-> prim,
              t |-> CHOOSE t \in ts : \A other \in ts : Le(t, other)]

\* An interior node that keeps the left child's hit whenever there is one.
Nearer_left(left_hit, right_hit) ==
    IF left_hit.some THEN left_hit ELSE right_hit

\* BvhNode::hit, interior node: the nearer of the two children's hits, the
\* left one on ties.
Nearer(left_hit, right_hit) ==
    IF ~left_hit.some /\ right_hit.some THEN right_hit
    ELSE IF left_hit.some /\ right_hit.some /\ Lt(right_hit.t, left_hit.t) THEN right_hit
    ELSE left_hit

\* A right child searched without a bound when the left child found nothing.
RightTMax_unbounded(left_hit, t_max) == IF left_hit.some THEN left_hit.t ELSE INF

\* A right child handed the caller's bound whatever the left child found.
RightTMax_caller(left_hit, t_max) == t_max

\* The bound BvhNode::hit passes to the right child.
RightTMax(left_hit, t_max) == IF left_hit.some THEN left_hit.t ELSE t_max

RECURSIVE BvhNode_hit(_, _, _)
BvhNode_hit(id, ray, t_max) ==
    IF ~Aabb_hit(bvh[id].bounds, ray, EPSILON, t_max) THEN None
    ELSE IF bvh[id].leaf THEN Geom_hit(bvh[id].prim, ray, t_max)
    ELSE LET left_hit == BvhNode_hit(Left(id), ray, t_max)
             right_hit == BvhNode_hit(Right(id), ray, RightTMax(left_hit, t_max))
         IN  Nearer(left_hit, right_hit)

\* The calls of BvhNode::hit a traversal makes, each with the node, the bound
\* it was handed, the bound its caller had been handed and what it returned:
\* the node itself, and below an interior node whose box is hit the left
\* subtree's calls and then the right subtree's.  hit is what the call on id
\* returns.
RECURSIVE BvhNode_calls(_, _, _, _)
BvhNode_calls(id, ray, t_max, caller_t_max) ==
    LET call(result) ==
            [id |-> id, t_max |-> t_max, caller |-> caller_t_max, result |-> result]
    IN  IF ~Aabb_hit(bvh[id].bounds, ray, EPSILON, t_max)
        THEN [hit |-> None, calls |-> { call(None) }]
        ELSE IF bvh[id].leaf
        THEN LET h == Geom_hit(bvh[id].prim, ray, t_max)
             IN  [hit |-> h, calls |-> { call(h) }]
        ELSE LET left == BvhNode_calls(Left(id), ray, t_max, t_max)
                 right == BvhNode_calls(Right(id), ray,
                                        RightTMax(left.hit, t_max), t_max)
                 h == Nearer(left.hit, right.hit)
             IN  [hit |-> h, calls |-> { call(h) } \cup left.calls \cup right.calls]

\* Scene::hit: none without a root, else the root's hit.
Scene_hit(ray, t_max) ==
    IF Root \notin DOMAIN bvh THEN None ELSE BvhNode_hit(Root, ray, t_max)

\* A caller queries the built scene (Scene::hit reads the scene only, so one
\* query per run shows them all).
Hit ==
    /\ bphase = "built"
    /\ \E ray \in RayPool, t_max \in TMaxPool :
          query' = [ray |-> ray, t_max |-> t_max, result |-> Scene_hit(ray, t_max)]
    /\ bphase' = "queried"
    /\ UNCHANGED <<primitives, bvh, stack>>



\* ================================================================== render.rs
\* ------------------------------------------------------------------ render_to

\* Bounds of the render model.
MaxSide == 2        \* largest pixel_width and pixel_height
MaxPixels == 4      \* largest buffer
MaxSpp == 2         \* largest samples_per_pixel
NumWorkers == 2     \* threads of the rayon pool

Workers == 1..NumWorkers

VARIABLES
    pixel_width,        \* camera.pixel_width()
    pixel_height,       \* camera.pixel_height()
    samples_per_pixel,  \* opts.samples_per_pixel
    buf,                \* the pixel buffer: slot -> pixel
    rphase,             \* "start", "running", "joined", "panic"
    task,               \* per enumerate index: the for_each closure's state
    busy,               \* per worker: the index it is running, or -1
    rngs,               \* per worker: the state of its thread_rng()
    writes              \* per slot: how many times it has been assigned

renderVars == <<pixel_width, pixel_height, samples_per_pixel, buf, rphase,
                task, busy, rngs, writes>>

\* Vec3::default(), the content of the buffer main allocates.
Unwritten == [px |-> -1, py |-> -1, samples |-> << >>]

Slots == DOMAIN buf

InitRender ==
    /\ pixel_width \in 0..MaxSide
    /\ pixel_height \in 0..MaxSide
    /\ samples_per_pixel \in 1..MaxSpp
    /\ \E len \in 0..MaxPixels : buf = [slot \in 0..(len - 1) |-> Unwritten]
    /\ rphase = "start"
    /\ task = << >>
    /\ busy = [w \in Workers |-> -1]
    /\ rngs = [w \in Workers |-> << >>]
    /\ writes = [slot \in Slots |-> 0]

\* let px = idx % pixel_width.
PixelX(idx) == idx % pixel_width
\* let py = idx / pixel_width.
PixelY(idx) == idx \div pixel_width

\* render_to up to par_iter_mut: the assertion on the buffer's length, then
\* one task per (index, slot) pair of enumerate().
RenderStart ==
    /\ rphase = "start"
    /\ IF Cardinality(Slots) # pixel_width * pixel_height
       THEN /\ rphase' = "panic"
            /\ UNCHANGED task
       ELSE /\ rphase' = "running"
            /\ task' = [idx \in Slots |->
                          [st |-> "pending", slot |-> idx, px |-> -1, py |-> -1,
                           acc |-> << >>]]
    /\ UNCHANGED <<pixel_width, pixel_height, samples_per_pixel, buf, busy, rngs, writes>>

\* A for_each that may hand an item out again once its closure has returned.
Unclaimed_again(idx) == task[idx].st # "running"

\* Whether for_each may still hand index idx to a worker: each item once.
Unclaimed(idx) == task[idx].st = "pending"

\* A worker thread takes an item and enters the closure: px, py, and the
\* handle to the thread's own generator.
TaskBegin(w, idx) ==
    /\ rphase = "running"
    /\ busy[w] = -1
    /\ Unclaimed(idx)
    /\ task' = [task EXCEPT ![idx] =
                  [@ EXCEPT !.st = "running", !.px = PixelX(idx), !.py = PixelY(idx)]]
    /\ busy' = [busy EXCEPT ![w] = idx]
    /\ UNCHANGED <<pixel_width, pixel_height, samples_per_pixel, buf, rphase, rngs, writes>>

\* camera.cast_ray(px, py, rng) then trace_ray(scene, ray, rng, max_depth):
\* for a fixed scene and camera the sample is a function of the pixel and of
\* the generator's state, kept here as that pair; the generator's state is
\* the list of the samples it has served since the thread seeded it.
Sample(px, py, w) == [px |-> px, py |-> py, worker |-> w, rng |-> rngs[w]]

\* One round of the repeat_with closure.
TaskSample(w) ==
    /\ rphase = "running"
    /\ busy[w] # -1
    /\ LET idx == busy[w]
           t == task[idx]
       IN  /\ Len(t.acc) < samples_per_pixel
           /\ task' = [task EXCEPT ![idx].acc = Append(@, Sample(t.px, t.py, w))]
           /\ rngs' = [rngs EXCEPT ![w] = Append(@, <<t.px, t.py>>)]
    /\ UNCHANGED <<pixel_width, pixel_height, samples_per_pixel, buf, rphase, busy, writes>>

\* *pixel = sum / samples_per_pixel: the mean, kept as the samples it is of.
TaskWrite(w) ==
    /\ rphase = "running"
    /\ busy[w] # -1
    /\ LET idx == busy[w]
           t == task[idx]
       IN  /\ Len(t.acc) = samples_per_pixel
           /\ buf' = [buf EXCEPT ![t.slot] = [px |-> t.px, py |-> t.py, samples |-> t.acc]]
           /\ writes' = [writes EXCEPT ![t.slot] = @ + 1]
           /\ task' = [task EXCEPT ![idx].st = "done"]
    /\ busy' = [busy EXCEPT ![w] = -1]
    /\ UNCHANGED <<pixel_width, pixel_height, samples_per_pixel, rphase, rngs>>

\* for_each returns once every item has been processed.
RenderJoin ==
    /\ rphase = "running"
    /\ \A idx \in DOMAIN task : task[idx].st = "done"
    /\ rphase' = "joined"
    /\ UNCHANGED <<pixel_width, pixel_height, samples_per_pixel, buf, task, busy, rngs, writes>>


\* ------------------------------------------------------------------ trace_ray: numbers

\* Largest max_depth handed to trace_ray.
MaxDepth == 7
\* Largest number of surfaces along one path that are not always specular
\* (the surfaces at which direct lighting is estimated).
MaxLitHits == 2

\* Colours, pdfs, cosines and uniform draws are fixed-point numbers: the
\* integer n stands for n / One, and a product or quotient is rounded (down)
\* to the grid as f64 arithmetic rounds to its own.  With inputs that are
\* powers of two (or zero) nothing is lost; with the cosine 49 / One
\* cos * (attenuation / cos) falls below attenuation, on the grid as in f64
\* (49. * (1. / 49.) < 1.).
One == 2^(MaxDepth + 4)
Half == One \div 2

FMul(a, b) == (a * b) \div One
FDiv(a, b) == (a * One) \div b

\* Vec3::default() and Vec3::from_element(x).
Zero3 == <<0, 0, 0>>
Splat(x) == <<x, x, x>>
\* component_mul, scalar * vector, vector / scalar, vector + vector.
CMul(a, b) == [i \in Axes |-> FMul(a[i], b[i])]
SMul(k, a) == [i \in Axes |-> FMul(k, a[i])]
SDiv(a, q) == [i \in Axes |-> FDiv(a[i], q)]
\* nalgebra max(): the largest component.
VMax(a) == IMax(a[1], IMax(a[2], a[3]))

White == Splat(One)
Grey == Splat(Half)
Tint == <<Half, One, Half>>

\* ------------------------------------------------------------------ shading.rs

Real(val) == [kind |-> "real", val |-> val]
Delta == [kind |-> "delta", val |-> 0]

\* Pdf::factor: 1 / val for Real, 1 for Delta.
Pdf_factor(pdf) == IF pdf.kind = "real" THEN FDiv(One, pdf.val) ELSE One

\* A SampledRadiance, its direction kept as cos_theta(dir).
SampledRadiance_new_real(cos, color, pdf) ==
    [some |-> TRUE, cos |-> cos, color |-> color, pdf |-> Real(pdf)]
SampledRadiance_new_delta(cos, color) ==
    [some |-> TRUE, cos |-> cos, color |-> color, pdf |-> Delta]
NoSample == [some |-> FALSE, cos |-> 0, color |-> Zero3, pdf |-> Delta]

\* SampledRadiance::scaled_color: cos_theta(dir) * pdf.factor() * color.
scaled_color(s) == SMul(FMul(s.cos, Pdf_factor(s.pdf)), s.color)

\* ------------------------------------------------------------------ material.rs

\* impl<M: SpecularMaterial> Material for M: the sample is the scatter's
\* direction with colour attenuation / cos_theta(dir), tagged Delta, or none
\* when the scatter declines; bsdf and pdf are zero; is_always_specular().
\* cosines: cos_theta of the directions the scatter may return at the hit.
SpecularMaterial(attenuation, cosines, declines) ==
    [always_specular |-> TRUE,
     f |-> Zero3,
     p |-> 0,
     samples |-> { SampledRadiance_new_delta(cos, SDiv(attenuation, cos)) :
                     cos \in cosines }
                 \cup (IF declines THEN {NoSample} ELSE {})]

\* Mirror: attenuation = self.color, never declines; met at an angle whose
\* reflection has cosine Half.
Mirror(color) == SpecularMaterial(color, {Half}, FALSE)
\* Dielectric: attenuation Vec3::from_element(1.) on both branches; the
\* reflected or refracted direction has cosine one half or 49 / One.
Dielectric == SpecularMaterial(Splat(One), {Half, 49}, FALSE)
\* A SpecularMaterial whose sample_specular_scatter may return none (the
\* trait's Option).
Glossy(albedo) == SpecularMaterial(albedo, {Half}, TRUE)

\* Any other implementor of Material, is_always_specular() left at its
\* default (false): bsdf value f, pdf value p, and the samples it may return.
Matte(f, p, samples) ==
    [always_specular |-> FALSE, f |-> f, p |-> p, samples |-> samples]

\* Diffuse: bsdf is albedo * FRAC_1_PI; a sample has direction dir (cosines:
\* the cos_theta(dir) the hemisphere sampler may give), colour
\* albedo * FRAC_1_PI and pdf Real(cos_theta(dir) * FRAC_1_PI); pdf() of a
\* direction in the hemisphere of outgoing is its cos_theta, incoming_cos.
Diffuse(albedo, incoming_cos, cosines) ==
    LET FRAC_1_PI == (One * 113) \div 355
    IN  Matte(SMul(FRAC_1_PI, albedo), incoming_cos,
              { SampledRadiance_new_real(cos, SMul(FRAC_1_PI, albedo),
                                         FMul(cos, FRAC_1_PI)) :
                  cos \in cosines })

\* The materials a path may hit: the specular ones, and one that is not,
\* whose samples cover a decline, a Delta sample, a Real sample and a Real
\* sample of no colour.
MaterialPool ==
    { Mirror(Tint), Dielectric, Glossy(Tint),
      Matte(Grey, One, { NoSample, SampledRadiance_new_delta(One, White),
                         SampledRadiance_new_real(One, Grey, One),
                         SampledRadiance_new_real(One, Zero3, One) }) }

\* No material: the value of cur outside an iteration's body.
NoMaterial == Matte(Zero3, 0, {})

\* ------------------------------------------------------------------ light.rs

NoEmission == [some |-> FALSE, color |-> Zero3]
Emission(color) == [some |-> TRUE, color |-> color]

\* PointLight: one Delta sample of colour color / t^2, pdf 0, emits nothing.
PointLight(color_over_t2) ==
    [samples |-> { SampledRadiance_new_delta(One, color_over_t2) },
     pdf |-> 0,
     emitted |-> { NoEmission }]

\* Any other implementor of Light: Real samples (or none), a pdf, and
\* emission along a ray that reaches it.
AreaLight(color, pdf) ==
    [samples |-> { NoSample, SampledRadiance_new_real(One, color, pdf) },
     pdf |-> pdf,
     emitted |-> { NoEmission, Emission(color) }]

\* The light lists a scene may hold.
LightLists ==
    { << >>, << PointLight(White) >>,
      << PointLight(White), AreaLight(White, One) >> }

\* The uniform draws of rng.gen::<f64>() the roulette may see: a value of
\* [0, 1), the largest being one grid step below 1.
Draws == { 0, Half, One - 1 }

\* ------------------------------------------------------------------ render.rs: direct lighting

\* fn power_weight(f, g) = f^2 / (f^2 + g^2).
power_weight(f, g) == FDiv(FMul(f, f), FMul(f, f) + FMul(g, g))

\* A light leg that hands every pdf to power_weight.
LightWeight_mis(pdf, material_pdf) ==
    [w |-> power_weight(pdf.val, material_pdf), pw |-> TRUE]

\* sample_lighting_from_light, the weight: power_weight for a Real light
\* sample, exactly 1 for a Delta one.  pw tells whether power_weight ran.
LightWeight(pdf, material_pdf) ==
    IF pdf.kind = "real"
    THEN [w |-> power_weight(pdf.val, material_pdf), pw |-> TRUE]
    ELSE [w |-> One, pw |-> FALSE]

\* sample_lighting_from_light: none when the light gives no sample or the
\* shadow ray is occluded, else weight * scaled_color * bsdf.
sample_lighting_from_light(light, material) ==
    { IF ~s.some
      THEN [some |-> FALSE, value |-> Zero3, pdf |-> "none", w |-> 0, pw |-> FALSE]
      ELSE IF occluded
      THEN [some |-> FALSE, value |-> Zero3, pdf |-> s.pdf.kind, w |-> 0, pw |-> FALSE]
      ELSE LET lw == LightWeight(s.pdf, material.p)
           IN  [some |-> TRUE,
                value |-> SMul(lw.w, CMul(scaled_color(s), material.f)),
                pdf |-> s.pdf.kind, w |-> lw.w, pw |-> lw.pw] :
        s \in light.samples, occluded \in BOOLEAN }

\* sample_lighting_from_object, the pdf match: a Delta material sample ends
\* the leg before any weight is computed.
ObjectLegRuns(pdf) == pdf.kind = "real"

\* sample_lighting_from_object: none when the material declines, the sample
\* is Delta, the light emits nothing along the ray or the ray is occluded,
\* else power_weight * scaled_color * emitted colour.
sample_lighting_from_object(light, material) ==
    { IF ~s.some
      THEN [some |-> FALSE, value |-> Zero3, pdf |-> "none", pw |-> FALSE]
      ELSE IF ~ObjectLegRuns(s.pdf) \/ ~e.some \/ occluded
      THEN [some |-> FALSE, value |-> Zero3, pdf |-> s.pdf.kind, pw |-> FALSE]
      ELSE [some |-> TRUE,
            value |-> SMul(power_weight(s.pdf.val, light.pdf),
                           CMul(scaled_color(s), e.color)),
            pdf |-> s.pdf.kind, pw |-> TRUE] :
        s \in material.samples, e \in light.emitted, occluded \in BOOLEAN }

\* What one evaluation of direct lighting did: the value returned and, of
\* each leg, the pdf kind met, whether power_weight ran, the weight used.
NoNee == [invoked |-> FALSE, value |-> Zero3,
          light_pdf |-> "none", light_w |-> 0, light_pw |-> FALSE, light_some |-> FALSE,
          object_pdf |-> "none", object_pw |-> FALSE, object_some |-> FALSE]

\* A sample_single_light that returns a constant ambient term.
sample_single_light_ambient(lights, material) ==
    { [NoNee EXCEPT !.invoked = TRUE, !.value = White] }

\* sample_single_light: zero without a light to choose, else
\* (from_light + from_object) * lights.len() for the light chosen.
sample_single_light(lights, material) ==
    IF lights = << >>
    THEN { [NoNee EXCEPT !.invoked = TRUE] }
    ELSE UNION { { [invoked |-> TRUE,
                    value |-> [i \in Axes |-> (fl.value[i] + fo.value[i]) * Len(lights)],
                    light_pdf |-> fl.pdf, light_w |-> fl.w, light_pw |-> fl.pw,
                    light_some |-> fl.some,
                    object_pdf |-> fo.pdf, object_pw |-> fo.pw,
                    object_some |-> fo.some] :
                     fl \in sample_lighting_from_light(lights[k], material),
                     fo \in sample_lighting_from_object(lights[k], material) } :
                 k \in 1..Len(lights) }

\* ------------------------------------------------------------------ render.rs: trace_ray

\* const MIN_RR_DEPTH: u32 = 5.
MIN_RR_DEPTH == 5

VARIABLES
    max_depth,    \* the argument max_depth
    lights,       \* scene.lights()
    depth,        \* the loop variable
    radiance,     \* the accumulated radiance
    throughput,   \* the path throughput
    tpc,          \* "top", "shade", "scatter", "roulette", "done"
    cur,          \* hit.material of the current iteration
    hits,         \* number of primary scene.hit queries made
    lit_hits,     \* number of hits so far on materials not always specular
    nee,          \* what direct lighting did in the current iteration
    before,       \* radiance when the current iteration began
    contrib,      \* what the current iteration has added to radiance
    udraw,        \* the roulette's uniform draw of this iteration, or -1
    ended,        \* why the loop was left: "", "miss", "declined", "rr_zero",
                  \* "rr_kill", "depth"
    returned      \* the value returned, once tpc = "done"

traceVars == <<max_depth, lights, depth, radiance, throughput, tpc, cur, hits,
               lit_hits, nee, before, contrib, udraw, ended, returned>>

InitTrace ==
    /\ max_depth \in 0..MaxDepth
    /\ lights \in LightLists
    /\ depth = 0
    /\ radiance = Zero3
    /\ throughput = Splat(One)
    /\ tpc = "top"
    /\ cur = NoMaterial
    /\ hits = 0
    /\ lit_hits = 0
    /\ nee = NoNee
    /\ before = Zero3
    /\ contrib = Zero3
    /\ udraw = -1
    /\ ended = ""
    /\ returned = Zero3

\* A trace_ray that returns black from a path that met a dead end.
ReturnValue_reset(why) == IF why = "depth" THEN radiance ELSE Zero3

\* A trace_ray that adds a background colour to a path that leaves the scene.
ReturnValue_sky(why) == IF why = "miss" THEN VAdd(radiance, White) ELSE radiance

\* The value trace_ray returns when the loop is left for reason why.
ReturnValue(why) == radiance

\* Leaving the loop (a break, or the range running out) and returning.
Finish(why) ==
    /\ tpc' = "done"
    /\ ended' = why
    /\ returned' = ReturnValue(why)

\* A loop over the inclusive range 0..=max_depth.
InRange_inclusive == depth <= max_depth

\* The loop's range: for depth in 0..max_depth.
InRange == depth < max_depth

\* The head of an iteration, scene.hit(&ray, INFINITY) having returned hit:
\* none ends the path, a hit yields the material of the primitive, one of
\* materials.
TraceHitOn(hit, materials) ==
    /\ tpc = "top"
    /\ InRange
    /\ hits' = hits + 1
    /\ udraw' = -1
    /\ before' = radiance
    /\ contrib' = Zero3
    /\ \/ /\ ~hit.some
          /\ Finish("miss")
          /\ UNCHANGED <<cur, lit_hits>>
       \/ /\ hit.some
          /\ \E m \in materials :
                /\ m.always_specular \/ lit_hits < MaxLitHits
                /\ cur' = m
                /\ lit_hits' = IF m.always_specular THEN lit_hits ELSE lit_hits + 1
          /\ tpc' = "shade"
          /\ UNCHANGED <<ended, returned>>
    /\ UNCHANGED <<max_depth, lights, depth, radiance, throughput, nee>>

\* An iteration's head in a scene left open: scene.hit returns none or a hit.
TraceHit == \E found \in BOOLEAN : TraceHitOn([some |-> found], MaterialPool)

\* The range has run out: the loop ends after max_depth iterations.
TraceExhausted ==
    /\ tpc = "top"
    /\ ~InRange
    /\ Finish("depth")
    /\ UNCHANGED <<max_depth, lights, depth, radiance, throughput, cur, hits, lit_hits,
                   nee, before, contrib, udraw>>

\* A trace_ray that estimates direct lighting at every bounce.
WantsDirect_always(material) == TRUE

\* if !hit.material.is_always_specular().
WantsDirect(material) == ~material.always_specular

\* radiance += throughput * sample_single_light(...), unless the material is
\* always specular.
TraceDirect ==
    /\ tpc = "shade"
    /\ IF WantsDirect(cur)
       THEN \E d \in sample_single_light(lights, cur) :
               /\ nee' = d
               /\ contrib' = CMul(throughput, d.value)
               /\ radiance' = VAdd(radiance, CMul(throughput, d.value))
       ELSE UNCHANGED <<nee, contrib, radiance>>
    /\ tpc' = "scatter"
    /\ UNCHANGED <<max_depth, lights, depth, throughput, cur, hits, lit_hits, before,
                   udraw, ended, returned>>

\* hit.material.sample_bsdf: none ends the path, a sample scales throughput.
\* Of the call of sample_single_light only the value it returned is left: the
\* pdfs and weights of its legs were its locals.
TraceScatter ==
    /\ tpc = "scatter"
    /\ \E s \in cur.samples :
          IF ~s.some
          THEN /\ Finish("declined")
               /\ UNCHANGED throughput
          ELSE /\ throughput' = CMul(throughput, scaled_color(s))
               /\ tpc' = "roulette"
               /\ UNCHANGED <<ended, returned>>
    /\ nee' = [NoNee EXCEPT !.invoked = nee.invoked, !.value = nee.value]
    /\ UNCHANGED <<max_depth, lights, depth, radiance, cur, hits, lit_hits,
                   before, contrib, udraw>>

\* A roulette that starts one iteration early.
RouletteActive_early == depth >= MIN_RR_DEPTH

\* if depth > MIN_RR_DEPTH.
RouletteActive == depth > MIN_RR_DEPTH

\* The next iteration: ray = spawn_local_ray(sample.dir), depth + 1.
NextIteration ==
    /\ tpc' = "top"
    /\ depth' = depth + 1
    /\ nee' = NoNee
    /\ cur' = NoMaterial
    /\ UNCHANGED <<ended, returned>>

\* Russian roulette, then the spawn of the next ray.
TraceRoulette ==
    /\ tpc = "roulette"
    /\ LET q == VMax(throughput)
       IN  IF ~RouletteActive
           THEN /\ NextIteration
                /\ UNCHANGED <<throughput, udraw>>
           ELSE IF Lt(Num(q), EPSILON)
           THEN /\ Finish("rr_zero")
                /\ UNCHANGED <<throughput, udraw, depth, nee, cur>>
           ELSE IF Lt(Num(q), Num(One))
           THEN \E u \in Draws :
                   /\ udraw' = u
                   /\ IF u > q
                      THEN /\ Finish("rr_kill")
                           /\ UNCHANGED <<throughput, depth, nee, cur>>
                      ELSE /\ throughput' = SDiv(throughput, q)
                           /\ NextIteration
           ELSE /\ NextIteration
                /\ UNCHANGED <<throughput, udraw>>
    /\ UNCHANGED <<max_depth, lights, radiance, hits, lit_hits, before, contrib>>


\* ================================================================== specifications

\* ------------------------------------------------------------------ material.rs: Dielectric, Diffuse

\* Directions here are unit vectors with components in fifths: <<3, 0, 4>> is
\* (0.6, 0, 0.8).
UnitLen == 5

\* An exact fraction n / d with d > 0, and its comparisons.
Ratio(n, d) == [n |-> n, d |-> d]
RLt(a, b) == a.n * b.d < b.n * a.d
REq(a, b) == a.n * b.d = b.n * a.d
RSquare(a) == Ratio(a.n * a.n, a.d * a.d)

\* shading::cos_theta, shading::sin_theta (in fifths), same_hemisphere.
cos_theta(dir) == dir[3]
sin_theta(dir) ==
    CHOOSE s \in 0..UnitLen : s * s = UnitLen * UnitLen - cos_theta(dir) * cos_theta(dir)
same_hemisphere(incoming, outgoing) == incoming[3] * outgoing[3] > 0

reflect_z(incoming) == Vec(-incoming[1], -incoming[2], incoming[3])

\* schlick_reflectance: r0 + (1. - r0) * (1. - cos_theta).powi(5), r0 a
\* fraction and cos_theta in fifths.
schlick_reflectance(r0, cos) ==
    Ratio(r0.n * UnitLen^5 + (r0.d - r0.n) * (UnitLen - cos)^5, r0.d * UnitLen^5)

\* dielectric_reflectance: r0 = ((1 - ratio) / (1 + ratio))^2.
dielectric_reflectance(cos, ratio) ==
    schlick_reflectance(RSquare(Ratio(ratio.d - ratio.n, ratio.d + ratio.n)), cos)

\* The match on shading_info.side.
refractive_ratio(refractive_index, side) ==
    IF side = "Inside" THEN refractive_index
    ELSE Ratio(refractive_index.d, refractive_index.n)

\* Dielectric::sample_specular_scatter; u is rng.gen::<f64>() as a fraction,
\* drawn only when the first operand of || is false.  The scattered unit
\* direction has x and y exactly and z by its sign and its square (the
\* refracted z is a square root).
Dielectric_sample_specular_scatter(refractive_index, side, outgoing, u) ==
    LET ratio == refractive_ratio(refractive_index, side)
        cos == cos_theta(outgoing)
        sin == sin_theta(outgoing)
        reflects ==
            \/ ratio.n * sin > ratio.d * UnitLen
            \/ RLt(u, dielectric_reflectance(cos, ratio))
        mirrored == reflect_z(outgoing)
        dir ==
            IF reflects
            THEN [x |-> Ratio(mirrored[1], UnitLen), y |-> Ratio(mirrored[2], UnitLen),
                  zsq |-> Ratio(mirrored[3] * mirrored[3], UnitLen * UnitLen),
                  zneg |-> FALSE]
            ELSE \* refracted_perp = ratio * (cos_theta * up - outgoing),
                 \* refracted_par = -sqrt(1 - |refracted_perp|^2) * up
                 [x |-> Ratio(-(ratio.n * outgoing[1]), ratio.d * UnitLen),
                  y |-> Ratio(-(ratio.n * outgoing[2]), ratio.d * UnitLen),
                  zsq |-> Ratio(ratio.d * ratio.d * UnitLen * UnitLen
                                  - ratio.n * ratio.n * sin * sin,
                                ratio.d * ratio.d * UnitLen * UnitLen),
                  zneg |-> TRUE]
    IN  [dir |-> dir, attenuation |-> Splat(Ratio(1, 1))]

\* impl<M: SpecularMaterial> Material for M, sample_bsdf: new_delta(dir,
\* attenuation / cos_theta(dir)); the quotient is kept as its numerator and
\* the direction whose cosine divides it.
Specular_sample_bsdf(scatter) ==
    [some |-> TRUE, dir |-> scatter.dir,
     color |-> [over_cos |-> scatter.attenuation], pdf |-> Delta]

\* A number k * (1/pi)^e.  pi is transcendental, so two such numbers with k
\* not zero are equal only if k and e both agree.
PiNum(k, e) == [k |-> k, e |-> e]
PiEq(a, b) == IF a.k = 0 \/ b.k = 0 THEN a.k = b.k ELSE a = b
\* x * f64::consts::FRAC_1_PI
MulFrac1Pi(x) == PiNum(x.k, x.e + 1)

\* CosWeightedHemisphere::sample: radius in fifths (radius_squared < 1, so
\* radius < UnitLen) and phi in quarter turns.
CosWeightedHemisphere_sample(radius, quarter) ==
    LET cosphi == CASE quarter = 0 -> 1 [] quarter = 2 -> -1 [] OTHER -> 0
        sinphi == CASE quarter = 1 -> 1 [] quarter = 3 -> -1 [] OTHER -> 0
    IN  Vec(radius * cosphi, radius * sinphi,
            CHOOSE z \in 0..UnitLen : z * z = UnitLen * UnitLen - radius * radius)

\* Diffuse::sample_bsdf, Diffuse::pdf.
Diffuse_sample_bsdf(albedo, radius, quarter) ==
    LET dir == CosWeightedHemisphere_sample(radius, quarter)
    IN  [some |-> TRUE, dir |-> dir,
         color |-> [i \in Axes |-> MulFrac1Pi(PiNum(albedo[i], 0))],
         pdf |-> Real(MulFrac1Pi(PiNum(cos_theta(dir), 0)))]
Diffuse_pdf(outgoing, incoming) ==
    IF same_hemisphere(incoming, outgoing)
    THEN PiNum(cos_theta(incoming), 0)
    ELSE PiNum(0, 0)

\* The inputs: refractive indices, directions on either side of the surface
\* (the outgoing ones are those above it), the uniform draws, the radii.
IndexPool == { Ratio(3, 2), Ratio(4, 3), Ratio(2, 1) }
DirPool == { Vec(0, 0, 5), Vec(3, 0, 4), Vec(0, 4, 3), Vec(-4, 0, 3),
             Vec(0, 0, -5), Vec(0, -3, -4), Vec(5, 0, 0) }
UniformPool == { Ratio(0, 1), Ratio(1, 20), Ratio(1, 2), Ratio(9, 10) }
RadiusPool == { 0, 3, 4 }

VARIABLES
    mpc,      \* "idle", "call", "scattered", "sampled", "evaluated"
    margs,    \* the material and the ShadingInfo of the call
    mret      \* what the calls returned

NoRet == [u |-> Ratio(0, 1), scatter |-> << >>, sample |-> NoSample,
          incoming |-> Vec(0, 0, 5), p |-> PiNum(0, 0)]

\* A Dielectric and a Diffuse, and the ShadingInfo of a hit on them.
InitMaterial ==
    /\ mpc = "call"
    /\ margs \in [refractive_index : IndexPool, albedo : { White, Tint },
                  side : { "Inside", "Outside" },
                  outgoing : { dir \in DirPool : cos_theta(dir) > 0 }]
    /\ mret = NoRet

\* Dielectric: sample_bsdf through the blanket impl.
DielectricScatter ==
    /\ mpc = "call"
    /\ \E u \in UniformPool :
          LET scatter == Dielectric_sample_specular_scatter(
                             margs.refractive_index, margs.side, margs.outgoing, u)
          IN  mret' = [mret EXCEPT !.u = u, !.scatter = scatter,
                                   !.sample = Specular_sample_bsdf(scatter)]
    /\ mpc' = "scattered"
    /\ UNCHANGED margs

\* Diffuse: sample_bsdf.
DiffuseSample ==
    /\ mpc = "call"
    /\ \E radius \in RadiusPool, quarter \in 0..3 :
          mret' = [mret EXCEPT !.sample = Diffuse_sample_bsdf(margs.albedo, radius, quarter)]
    /\ mpc' = "sampled"
    /\ UNCHANGED margs

\* Diffuse: pdf for a direction, the sampled one among them (as
\* sample_lighting_from_object and sample_lighting_from_light ask).
DiffuseEval ==
    /\ mpc = "sampled"
    /\ \E incoming \in DirPool \cup { mret.sample.dir } :
          mret' = [mret EXCEPT !.incoming = incoming,
                               !.p = Diffuse_pdf(margs.outgoing, incoming)]
    /\ mpc' = "evaluated"
    /\ UNCHANGED margs

\* ------------------------------------------------------------------ main.rs: main

\* Largest --width and --height of the command lines.
MainMaxSide == 2

\* Whether an f64 is neither NaN nor an infinity.
IsFinite(x) == ~x.nan /\ -Infinity < x.u /\ x.u < Infinity

\* 1. / n as f64 for a u32 n: +inf for 0, else the reciprocal, kept by its
\* denominator.
Recip(n) == IF n = 0 THEN [inf |-> TRUE, den |-> 0] ELSE [inf |-> FALSE, den |-> n]

\* Camera::new, its f64 intermediates by their kind.  aspect_ratio =
\* pixel_width as f64 / pixel_height as f64: 0 / 0 is NaN, n / 0 is +inf,
\* 0 / n is 0.  viewport_height = 2. * (vert_fov * PI / 360.).tan(): tan of a
\* NaN or of an infinity is NaN.  viewport_width = aspect_ratio *
\* viewport_height, the height not zero.  No field is checked:
\* lens_radius = aperture / 2. (kept in halves), inv_width and inv_height
\* are 1 / 0 = +inf for a zero size.
\* horiz = focus_dist * viewport_width * u and bottom_left are computed from
\* viewport_width; u = vup x w has y = 0 for vup = (0, 1, 0), so an infinite
\* viewport_width leaves a NaN (inf * 0) in them as a NaN one does.
Camera_new(opts) ==
    LET aspect_ratio ==
            IF opts.pixel_height = 0
            THEN (IF opts.pixel_width = 0 THEN "nan" ELSE "inf")
            ELSE IF opts.pixel_width = 0 THEN "zero" ELSE "finite"
        viewport_height == IF IsFinite(opts.vert_fov) THEN "finite" ELSE "nan"
        viewport_width ==
            IF aspect_ratio = "nan" \/ viewport_height = "nan" THEN "nan"
            ELSE aspect_ratio
    IN  [some |-> TRUE,
         pixel_width |-> opts.pixel_width,
         pixel_height |-> opts.pixel_height,
         lens_radius |-> opts.aperture,
         viewport_height |-> viewport_height,
         viewport_width |-> viewport_width,
         viewport_nan |-> viewport_width = "nan",
         horiz_nan |-> viewport_width \in { "nan", "inf" },
         vert_nan |-> viewport_height = "nan",
         inv_width |-> Recip(opts.pixel_width),
         inv_height |-> Recip(opts.pixel_height)]

NoCamera ==
    [some |-> FALSE, pixel_width |-> 0, pixel_height |-> 0, lens_radius |-> Num(0),
     viewport_height |-> "finite", viewport_width |-> "finite",
     viewport_nan |-> FALSE, horiz_nan |-> FALSE, vert_nan |-> FALSE,
     inv_width |-> Recip(0), inv_height |-> Recip(0)]

VARIABLES
    args,        \* CliArgs::from_args(): what structopt parsed
    mainpc,      \* "idle", "parsed", "scene", "camera", "render", "rendered", "exit"
    camera,      \* the Camera, once constructed
    rendered,    \* number of pixels render_to has written
    exit_code    \* the process's exit code, once main has returned; else -1

mainVars == <<args, mainpc, camera, rendered, exit_code>>

\* structopt's parse: --width and --height are any u32, --vfov and
\* --aperture any f64 that f64::from_str accepts ("NaN", "inf", "-1").
InitMain ==
    /\ args \in [width : 0..MainMaxSide, height : 0..MainMaxSide,
                 vfov : { Num(50), NaN, INF },
                 aperture : { Num(-1), Num(0), Num(1), NaN, INF }]
    /\ mainpc = "parsed"
    /\ camera = NoCamera
    /\ rendered = 0
    /\ exit_code = -1

\* let scene = build_scene(&mut scene_rng).
MainBuildScene ==
    /\ mainpc = "parsed"
    /\ mainpc' = "scene"
    /\ UNCHANGED <<args, camera, rendered, exit_code>>

\* let camera = Camera::new(&camera_opts), the options copied from args.
MainCamera ==
    /\ mainpc = "scene"
    /\ camera' = Camera_new([pixel_width |-> args.width, pixel_height |-> args.height,
                             vert_fov |-> args.vfov, aperture |-> args.aperture])
    /\ mainpc' = "camera"
    /\ UNCHANGED <<args, rendered, exit_code>>

\* vec![Vec3::default(); width * height] and the call of render_to, whose
\* assert_eq! on the length holds.
MainRenderStart ==
    /\ mainpc = "camera"
    /\ mainpc' = "render"
    /\ UNCHANGED <<args, camera, rendered, exit_code>>

\* render_to writes one pixel.
MainRenderPixel ==
    /\ mainpc = "render"
    /\ rendered < camera.pixel_width * camera.pixel_height
    /\ rendered' = rendered + 1
    /\ UNCHANGED <<args, mainpc, camera, exit_code>>

\* render_to returns.
MainRenderDone ==
    /\ mainpc = "render"
    /\ rendered = camera.pixel_width * camera.pixel_height
    /\ mainpc' = "rendered"
    /\ UNCHANGED <<args, camera, rendered, exit_code>>

\* File::create(..)? and img::write_png(..)?: either may fail, and main
\* returns the Err (a non-zero exit code); otherwise Ok(()).
MainSave ==
    /\ mainpc = "rendered"
    /\ \E saved \in BOOLEAN : exit_code' = IF saved THEN 0 ELSE 1
    /\ mainpc' = "exit"
    /\ UNCHANGED <<args, camera, rendered>>

\* The material calls' and main's parts of the state, and their values
\* while another part of the program runs.
otherVars == <<mpc, margs, mret, mainVars>>
IdleMaterial ==
    /\ mpc = "idle"
    /\ margs = [refractive_index |-> Ratio(1, 1), albedo |-> Zero3,
                side |-> "Outside", outgoing |-> Vec(0, 0, 5)]
    /\ mret = NoRet
IdleMain ==
    /\ args = [width |-> 0, height |-> 0, vfov |-> Num(0), aperture |-> Num(0)]
    /\ mainpc = "idle" /\ camera = NoCamera /\ rendered = 0 /\ exit_code = -1
IdleOther == IdleMaterial /\ IdleMain

vars == <<bvhVars, renderVars, traceVars, otherVars>>

\* One part of the program is run at a time; the others stay as follows.
IdleBvh ==
    /\ primitives = << >> /\ bvh = << >> /\ stack = << >>
    /\ bphase = "idle" /\ query = NoQuery
IdleRender ==
    /\ pixel_width = 0 /\ pixel_height = 0 /\ samples_per_pixel = 1
    /\ buf = << >> /\ rphase = "idle" /\ task = << >>
    /\ busy = [w \in Workers |-> -1] /\ rngs = [w \in Workers |-> << >>]
    /\ writes = << >>
IdleTrace ==
    /\ max_depth = 0 /\ lights = << >> /\ depth = 0 /\ radiance = Zero3
    /\ throughput = Splat(One) /\ tpc = "idle" /\ cur = NoMaterial /\ hits = 0
    /\ lit_hits = 0
    /\ nee = NoNee /\ before = Zero3 /\ contrib = Zero3
    /\ udraw = -1 /\ ended = "" /\ returned = Zero3

\* bvh::build on a vector of primitives, then a Scene::hit query.
InitBvhRun == InitBvh /\ IdleRender /\ IdleTrace /\ IdleOther
NextBvhRun ==
    \/ Build /\ UNCHANGED <<renderVars, traceVars, otherVars>>
    \/ DoBuild /\ UNCHANGED <<renderVars, traceVars, otherVars>>
    \/ Hit /\ UNCHANGED <<renderVars, traceVars, otherVars>>
SpecBvh == InitBvhRun /\ [][NextBvhRun]_vars

\* render_to on a buffer, its tasks run by the pool's workers.
InitRenderRun == InitRender /\ IdleBvh /\ IdleTrace /\ IdleOther
NextRenderRun ==
    \/ RenderStart /\ UNCHANGED <<bvhVars, traceVars, otherVars>>
    \/ \E w \in Workers, idx \in DOMAIN task :
          TaskBegin(w, idx) /\ UNCHANGED <<bvhVars, traceVars, otherVars>>
    \/ \E w \in Workers : TaskSample(w) /\ UNCHANGED <<bvhVars, traceVars, otherVars>>
    \/ \E w \in Workers : TaskWrite(w) /\ UNCHANGED <<bvhVars, traceVars, otherVars>>
    \/ RenderJoin /\ UNCHANGED <<bvhVars, traceVars, otherVars>>
SpecRender == InitRenderRun /\ [][NextRenderRun]_vars

\* One call of trace_ray.
InitTraceRun == InitTrace /\ IdleBvh /\ IdleRender /\ IdleOther
NextTraceRun ==
    \/ TraceHit /\ UNCHANGED <<bvhVars, renderVars, otherVars>>
    \/ TraceExhausted /\ UNCHANGED <<bvhVars, renderVars, otherVars>>
    \/ TraceDirect /\ UNCHANGED <<bvhVars, renderVars, otherVars>>
    \/ TraceScatter /\ UNCHANGED <<bvhVars, renderVars, otherVars>>
    \/ TraceRoulette /\ UNCHANGED <<bvhVars, renderVars, otherVars>>
SpecTrace == InitTraceRun /\ [][NextTraceRun]_vars

\* trace_ray runs to its return: nothing suspends it (no suspension point
\* exists inside a path), so a step that can be taken is taken.
SpecTraceFair == SpecTrace /\ WF_vars(NextTraceRun)

\* Calls of the materials' sampling and evaluation functions.
InitMaterialRun == InitMaterial /\ IdleBvh /\ IdleRender /\ IdleTrace /\ IdleMain
NextMaterialRun ==
    \/ DielectricScatter /\ UNCHANGED <<bvhVars, renderVars, traceVars, mainVars>>
    \/ DiffuseSample /\ UNCHANGED <<bvhVars, renderVars, traceVars, mainVars>>
    \/ DiffuseEval /\ UNCHANGED <<bvhVars, renderVars, traceVars, mainVars>>
SpecMaterial == InitMaterialRun /\ [][NextMaterialRun]_vars

\* One run of the program from its parsed command line to its exit.
InitMainRun == InitMain /\ IdleBvh /\ IdleRender /\ IdleTrace /\ IdleMaterial
NextMainRun ==
    \/ MainBuildScene /\ UNCHANGED <<bvhVars, renderVars, traceVars, mpc, margs, mret>>
    \/ MainCamera /\ UNCHANGED <<bvhVars, renderVars, traceVars, mpc, margs, mret>>
    \/ MainRenderStart /\ UNCHANGED <<bvhVars, renderVars, traceVars, mpc, margs, mret>>
    \/ MainRenderPixel /\ UNCHANGED <<bvhVars, renderVars, traceVars, mpc, margs, mret>>
    \/ MainRenderDone /\ UNCHANGED <<bvhVars, renderVars, traceVars, mpc, margs, mret>>
    \/ MainSave /\ UNCHANGED <<bvhVars, renderVars, traceVars, mpc, margs, mret>>
SpecMain == InitMainRun /\ [][NextMainRun]_vars

\* ------------------------------------------------------------------ render_to on a built scene: one frame

\* Bounds of the frame: a SceneBuilder's scene is built, render_to runs on
\* it, and every sample is a call of trace_ray whose scene.hit is answered by
\* the scene.
FrameMaxDepth == 1     \* largest opts.max_depth of the frame
FrameMaxSide == 2      \* largest pixel_width of the frame; its height is 1

\* The primitives added to the SceneBuilder before build(): none, or one
\* sphere.
FrameScenes == { << >>, << Sphere_new(Vec(4, 0, 0), 1) >> }

\* The material the sphere is added with, add_primitive(geom, material):
\* Diffuse::new(0.5, 0.5, 0.5), lit and sampled along the normal.
FrameMaterial == Diffuse(Grey, One, { One })

\* The lights added to the SceneBuilder: none, or one.
FrameLights == { << >>, << PointLight(White) >> }

\* main: the scene, the camera's size, the options and the buffer
\* vec![Vec3::default(); width * height].
InitFrame ==
    /\ primitives \in FrameScenes
    /\ bvh = << >> /\ stack = << >> /\ bphase = "input" /\ query = NoQuery
    /\ pixel_width \in 1..FrameMaxSide
    /\ pixel_height = 1
    /\ samples_per_pixel = 1
    /\ buf = [slot \in 0..(pixel_width * pixel_height - 1) |-> Unwritten]
    /\ rphase = "start"
    /\ task = << >>
    /\ busy = [w \in Workers |-> -1]
    /\ rngs = [w \in Workers |-> << >>]
    /\ writes = [slot \in Slots |-> 0]
    /\ max_depth \in 0..FrameMaxDepth
    /\ lights \in FrameLights
    /\ depth = 0 /\ radiance = Zero3 /\ throughput = Splat(One) /\ tpc = "idle"
    /\ cur = NoMaterial /\ hits = 0 /\ lit_hits = 0
    /\ nee = NoNee /\ before = Zero3 /\ contrib = Zero3
    /\ udraw = -1 /\ ended = "" /\ returned = Zero3
    /\ IdleOther

\* render_to is called on the scene SceneBuilder::build returned.
FrameRenderStart ==
    /\ bphase = "built"
    /\ RenderStart

\* Every worker inside trace_ray has its own locals.  The trace variables
\* hold the locals of the worker whose step is taken next (its task is
\* "tracing"); the locals of the other workers inside trace_ray are kept in
\* their tasks ("parked") until one of their steps is taken.
TraceLocals == <<depth, radiance, throughput, tpc, cur, hits, lit_hits, nee, before,
                 contrib, udraw, ended, returned>>

\* The locals of trace_ray at its entry (tpc "top") and outside it ("idle").
FreshLocals(pc) == <<0, Zero3, Splat(One), pc, NoMaterial, 0, 0, NoNee, Zero3,
                     Zero3, -1, "", Zero3>>

SetLocals(ctx) ==
    /\ depth' = ctx[1] /\ radiance' = ctx[2] /\ throughput' = ctx[3] /\ tpc' = ctx[4]
    /\ cur' = ctx[5] /\ hits' = ctx[6] /\ lit_hits' = ctx[7] /\ nee' = ctx[8]
    /\ before' = ctx[9] /\ contrib' = ctx[10] /\ udraw' = ctx[11]
    /\ ended' = ctx[12] /\ returned' = ctx[13]

\* The tasks once the worker whose locals the trace variables hold is set
\* aside.
ParkTracing(tasks) ==
    [idx \in DOMAIN tasks |->
        IF tasks[idx].st = "tracing"
        THEN [st |-> "parked", slot |-> tasks[idx].slot, px |-> tasks[idx].px,
              py |-> tasks[idx].py, acc |-> tasks[idx].acc, ctx |-> TraceLocals]
        ELSE tasks[idx]]

\* One round of the repeat_with closure begins: camera.cast_ray, which draws
\* from the thread's generator, and the call of trace_ray with its fresh
\* radiance and throughput.
FrameCast(w) ==
    /\ rphase = "running"
    /\ busy[w] # -1
    /\ task[busy[w]].st = "running"
    /\ Len(task[busy[w]].acc) < samples_per_pixel
    /\ task' = [ParkTracing(task) EXCEPT ![busy[w]].st = "tracing"]
    /\ rngs' = [rngs EXCEPT ![w] = Append(@, <<task[busy[w]].px, task[busy[w]].py>>)]
    /\ SetLocals(FreshLocals("top"))
    /\ UNCHANGED <<pixel_width, pixel_height, samples_per_pixel, buf, rphase, busy,
                   writes, max_depth, lights>>

\* The next step inside trace_ray is another worker's: the threads of the
\* pool run trace_ray at once, with no lock.
FrameSwitch(w) ==
    /\ rphase = "running"
    /\ busy[w] # -1
    /\ task[busy[w]].st = "parked"
    /\ LET t == task[busy[w]]
       IN  /\ task' = [ParkTracing(task) EXCEPT ![busy[w]] =
                          [st |-> "tracing", slot |-> t.slot, px |-> t.px, py |-> t.py,
                           acc |-> t.acc]]
           /\ SetLocals(t.ctx)
    /\ UNCHANGED <<pixel_width, pixel_height, samples_per_pixel, buf, rphase, busy,
                   rngs, writes, max_depth, lights>>

\* scene.hit(&ray, f64::INFINITY) on the frame's scene, for the camera's ray
\* or the ray the last bounce spawned.
FrameTraceHit ==
    /\ bphase = "built"
    /\ tpc = "top"
    /\ \E found \in { Scene_hit(ray, INF).some : ray \in RayPool } :
           TraceHitOn([some |-> found], { FrameMaterial })

\* A sample with the value trace_ray returned for it.
ValuedSample(px, py, value) == [px |-> px, py |-> py, value |-> value]

\* trace_ray has returned: the closure yields the value to the sum.
FrameCollect(w) ==
    /\ rphase = "running"
    /\ busy[w] # -1
    /\ tpc = "done"
    /\ task[busy[w]].st = "tracing"
    /\ LET idx == busy[w]
           t == task[idx]
       IN  /\ task' = [task EXCEPT
                          ![idx].acc = Append(@, ValuedSample(t.px, t.py, returned)),
                          ![idx].st = "running"]
    /\ SetLocals(FreshLocals("idle"))
    /\ UNCHANGED <<pixel_width, pixel_height, samples_per_pixel, buf, rphase, busy,
                   rngs, writes, max_depth, lights>>

RECURSIVE SumValues(_, _)
SumValues(samples, n) ==
    IF n = 0 THEN Zero3 ELSE VAdd(SumValues(samples, n - 1), samples[n].value)

\* The pixel's colour: .sum::<Vec3>() / (opts.samples_per_pixel as f64).
PixelColor(pixel) ==
    LET sum == SumValues(pixel.samples, Len(pixel.samples))
    IN  [i \in Axes |-> sum[i] \div samples_per_pixel]

NextFrame ==
    \/ Build /\ UNCHANGED <<renderVars, traceVars, otherVars>>
    \/ DoBuild /\ UNCHANGED <<renderVars, traceVars, otherVars>>
    \/ FrameRenderStart /\ UNCHANGED <<bvhVars, traceVars, otherVars>>
    \/ \E w \in Workers, idx \in DOMAIN task :
          TaskBegin(w, idx) /\ UNCHANGED <<bvhVars, traceVars, otherVars>>
    \/ \E w \in Workers : FrameCast(w) /\ UNCHANGED <<bvhVars, otherVars>>
    \/ \E w \in Workers : FrameSwitch(w) /\ UNCHANGED <<bvhVars, otherVars>>
    \/ FrameTraceHit /\ UNCHANGED <<bvhVars, renderVars, otherVars>>
    \/ TraceExhausted /\ UNCHANGED <<bvhVars, renderVars, otherVars>>
    \/ TraceDirect /\ UNCHANGED <<bvhVars, renderVars, otherVars>>
    \/ TraceScatter /\ UNCHANGED <<bvhVars, renderVars, otherVars>>
    \/ TraceRoulette /\ UNCHANGED <<bvhVars, renderVars, otherVars>>
    \/ \E w \in Workers : FrameCollect(w) /\ UNCHANGED <<bvhVars, otherVars>>
    \/ \E w \in Workers : TaskWrite(w) /\ UNCHANGED <<bvhVars, traceVars, otherVars>>
    \/ RenderJoin /\ UNCHANGED <<bvhVars, traceVars, otherVars>>

\* SceneBuilder::build, then render_to on its scene.
SpecFrame == InitFrame /\ [][NextFrame]_vars

\* ------------------------------------------------------------------ claims: bvh

\* Brute force: the primitives whose geometry reports a hit below t_max.
BruteHits(ray, t_max) ==
    { i \in 1..Len(primitives) : Geom_hit(i, ray, t_max).some }

\* C1: the hit Scene::hit returns for a ray and t_max is the brute-force
\* answer: none when no primitive is hit below t_max, otherwise a primitive
\* hit below t_max whose t is the least among the primitives hit.
C1_BvhEqualsBruteForce ==
    bphase = "queried" =>
        LET found == BruteHits(query.ray, query.t_max)
        IN  IF found = {} THEN ~query.result.some
            ELSE /\ query.result.some
                 /\ query.result.prim \in found
                 /\ query.result.t = Geom_hit(query.result.prim, query.ray, query.t_max).t
                 /\ \A j \in found :
                       Le(query.result.t, Geom_hit(j, query.ray, query.t_max).t)

\* C1 witness: a query under a finite bound whose ray hits two primitives at
\* different distances below the bound, the nearer one returned.
C1_Witness ==
    /\ bphase = "queried" /\ query.t_max # INF
    /\ query.result.some
    /\ \E j \in BruteHits(query.ray, query.t_max) :
          Lt(query.result.t, Geom_hit(j, query.ray, query.t_max).t)

Depth(id) == CHOOSE d \in 1..(MaxPrims + 2) : 2^(d - 1) <= id /\ id < 2^d

CeilLog2(n) == CHOOSE k \in 0..n : 2^k >= n /\ (k = 0 \/ 2^(k - 1) < n)

RECURSIVE LeafCount(_)
LeafCount(id) ==
    IF id \notin DOMAIN bvh THEN 0
    ELSE IF bvh[id].leaf THEN 1
    ELSE LeafCount(Left(id)) + LeafCount(Right(id))

Built == bphase \in {"built", "queried"}

\* C10: the tree built from N >= 1 primitives has depth at most
\* ceil(log2 N) + 1, every interior node over n primitives having
\* floor(n/2) of them on its left and the rest on its right.
C10_DepthBound ==
    (Built /\ Len(primitives) >= 1) =>
        /\ \A id \in DOMAIN bvh : Depth(id) <= CeilLog2(Len(primitives)) + 1
        /\ \A id \in DOMAIN bvh :
              ~bvh[id].leaf =>
                  /\ LeafCount(Left(id)) = LeafCount(id) \div 2
                  /\ LeafCount(Right(id)) = LeafCount(id) - LeafCount(id) \div 2

\* C10 witness: a built tree of three or more primitives whose deepest leaf
\* sits exactly at the bound.
C10_Witness ==
    /\ Built /\ Len(primitives) >= 3
    /\ \E id \in DOMAIN bvh :
          bvh[id].leaf /\ Depth(id) = CeilLog2(Len(primitives)) + 1

\* ------------------------------------------------------------------ claims: render_to

\* C2: in render_to on a buffer of length W*H, under every interleaving no
\* slot is assigned more than once, a slot that has been assigned holds the
\* pixel px = idx mod W, py = idx div W of its own index (idx = py*W + px,
\* px < W, py < H), and when for_each has returned every slot has been
\* assigned exactly once.
C2_EachIndexWrittenOnce ==
    rphase \in {"running", "joined"} =>
        /\ \A slot \in Slots :
              /\ writes[slot] <= 1
              /\ writes[slot] = 0 => buf[slot] = Unwritten
              /\ writes[slot] = 1 =>
                    /\ buf[slot].px = slot % pixel_width
                    /\ buf[slot].py = slot \div pixel_width
                    /\ buf[slot].py * pixel_width + buf[slot].px = slot
                    /\ buf[slot].px < pixel_width
                    /\ buf[slot].py < pixel_height
        /\ rphase = "joined" => \A slot \in Slots : writes[slot] = 1

\* C2 witness: a 2x2 render has returned and both workers wrote pixels.
C2_Witness ==
    /\ rphase = "joined"
    /\ pixel_width = 2 /\ pixel_height = 2
    /\ \A slot \in Slots : writes[slot] = 1
    /\ \E a, b \in Slots :
          buf[a].samples[1].worker = 1 /\ buf[b].samples[1].worker = 2

\* The state of a generator that has served the first n samples of a render
\* that takes the pixels in index order on one thread.
InOrderRng(n) ==
    [i \in 1..n |-> <<PixelX((i - 1) \div samples_per_pixel),
                      PixelY((i - 1) \div samples_per_pixel)>>]

\* The buffer of the render that takes the pixels in index order on worker 1.
InOrderRender ==
    [slot \in Slots |->
        [px |-> PixelX(slot), py |-> PixelY(slot),
         samples |-> [k \in 1..samples_per_pixel |->
                        [px |-> PixelX(slot), py |-> PixelY(slot), worker |-> 1,
                         rng |-> InOrderRng(slot * samples_per_pixel + k - 1)]]]]

\* C3: whatever the scheduling of the pixels onto the workers, the buffer
\* render_to leaves is the one the in-order render of the same scene, camera
\* and options leaves.
C3_ScheduleIndependent ==
    rphase = "joined" => buf = InOrderRender

\* ------------------------------------------------------------------ claims: trace_ray

DeadEnds == {"miss", "declined", "rr_zero", "rr_kill"}

\* C4: trace_ray makes at most max_depth scene.hit queries (iterations of
\* the path loop), with max_depth = 0 it returns (0,0,0) having made none,
\* and it always returns.
C4_Terminates ==
    /\ [](hits <= max_depth /\ depth <= max_depth)
    /\ []((tpc = "done" /\ max_depth = 0) => (returned = <<0, 0, 0>> /\ hits = 0))
    /\ <>(tpc = "done")

\* C4 witness: a path that ran all of its max_depth iterations, the roulette
\* included, and returned.
C4_Witness ==
    /\ tpc = "done" /\ ended = "depth"
    /\ max_depth = MaxDepth /\ hits = max_depth

\* C5: a path that ends on a miss, a declined BSDF sample or the roulette
\* returns a value (no panic), and the value is the radiance accumulated up
\* to that point: what it was when the iteration began plus what the
\* iteration's direct lighting added before the end.
C5_DeadEndReturnsRadiance ==
    (tpc = "done" /\ ended \in DeadEnds) =>
        /\ returned = radiance
        /\ returned = [i \in 1..3 |-> before[i] + contrib[i]]
        /\ ended = "miss" => returned = before
        /\ (ended = "declined" /\ nee.invoked) =>
              contrib = [i \in 1..3 |-> (throughput[i] * nee.value[i]) \div One]

\* C5 witness: the roulette kills a path in an iteration whose direct
\* lighting had added light to what earlier iterations had gathered.
C5_Witness ==
    /\ tpc = "done" /\ ended = "rr_kill"
    /\ nee.invoked /\ contrib # Zero3
    /\ before # Zero3
    /\ returned = radiance

\* C6: the roulette acts only in iterations with depth > 5.  In iterations
\* 0..=5 no path is ended by it and throughput is left alone; later, with q
\* the largest component of throughput, the path ends if q < EPSILON, and if
\* q < 1 it ends when the uniform draw exceeds q and otherwise goes on with
\* throughput divided by q; with q >= 1 it goes on unchanged.
C6_RouletteAfterBurnIn ==
    /\ [](ended \in {"rr_zero", "rr_kill"} => depth > 5)
    /\ [][tpc = "roulette" =>
            LET q == CHOOSE x \in {throughput[1], throughput[2], throughput[3]} :
                        \A i \in 1..3 : throughput[i] <= x
                goes_on == tpc' = "top" /\ depth' = depth + 1 /\ ended' = ""
            IN  IF depth <= 5 THEN goes_on /\ throughput' = throughput
                ELSE IF Lt(Num(q), EPSILON) THEN tpc' = "done" /\ ended' = "rr_zero"
                ELSE IF q < One
                THEN /\ udraw' \in Draws
                     /\ IF udraw' > q
                        THEN tpc' = "done" /\ ended' = "rr_kill"
                        ELSE /\ goes_on
                             /\ throughput' = [i \in 1..3 |-> (throughput[i] * One) \div q]
                ELSE goes_on /\ throughput' = throughput]_vars

\* C6 witness: in an iteration past the burn-in a draw above q < 1 has
\* ended the path.
C6_Witness ==
    /\ tpc = "done" /\ ended = "rr_kill"
    /\ depth > 5
    /\ udraw > VMax(throughput) /\ VMax(throughput) < One

\* C7: at a bounce on a material that is always specular,
\* sample_single_light is not invoked and the iteration leaves radiance as
\* it was; the lights, max_depth and what has been returned stay as well.
C7_SpecularSkipsDirect ==
    [][(cur.always_specular /\ tpc \in {"shade", "scatter", "roulette"}) =>
          /\ radiance' = radiance
          /\ ~nee'.invoked
          /\ contrib' = <<0, 0, 0>>
          /\ lights' = lights /\ max_depth' = max_depth]_vars

\* C7 witness: the direct-lighting step has been passed at a specular bounce
\* of a path that already carries radiance.
C7_Witness ==
    /\ tpc = "scatter" /\ cur.always_specular
    /\ radiance # Zero3 /\ lights # << >>
    /\ ~nee.invoked

\* C8: a Delta pdf never reaches power_weight.  In the light leg a Delta
\* light sample that contributes does so with weight exactly 1, power_weight
\* running only for Real; in the BSDF leg a Delta material sample makes the
\* leg return nothing, no weight computed.
C8_DeltaNeverWeighted ==
    nee.invoked =>
        /\ (nee.light_pdf = "delta" /\ nee.light_some) => nee.light_w = One
        /\ nee.light_pw => nee.light_pdf = "real"
        /\ nee.object_pdf = "delta" => ~nee.object_some
        /\ nee.object_pw => nee.object_pdf = "real"

\* C8 witness: one evaluation in which the light sample was Delta and
\* contributed, and the material sample was Delta.
C8_Witness ==
    /\ nee.invoked
    /\ nee.light_pdf = "delta" /\ nee.light_some
    /\ nee.object_pdf = "delta"

\* ------------------------------------------------------------------ claims: bvh traversal and shape

\* The calls of BvhNode::hit made by the last query.
QueryCalls ==
    IF Root \in DOMAIN bvh
    THEN BvhNode_calls(Root, query.ray, query.t_max, query.t_max).calls
    ELSE {}

\* C15: in a traversal the left child of an interior node is handed the
\* caller's t_max and the right child the left hit's t, or the caller's
\* t_max without a left hit; no bound handed to a node exceeds the bound its
\* caller had, nor the query's; and an interior node returns the right hit
\* only when its t is strictly below the left hit's.
C15_BoundsTighten ==
    bphase = "queried" =>
        LET calls == QueryCalls
        IN  \A c \in calls :
                /\ Le(c.t_max, c.caller)
                /\ Le(c.t_max, query.t_max)
                /\ (~bvh[c.id].leaf
                      /\ Aabb_hit(bvh[c.id].bounds, query.ray, EPSILON, c.t_max)) =>
                      \E l, r \in calls :
                          /\ l.id = 2 * c.id /\ l.t_max = c.t_max /\ l.caller = c.t_max
                          /\ r.id = 2 * c.id + 1 /\ r.caller = c.t_max
                          /\ r.t_max = IF l.result.some THEN l.result.t ELSE c.t_max
                          /\ c.result = IF r.result.some
                                           /\ (~l.result.some \/ Lt(r.result.t, l.result.t))
                                        THEN r.result ELSE l.result
                /\ c.id = Root => c.result = query.result

\* C15 witness: a right child was handed the left hit's t, below the caller's
\* bound, and found a hit nearer still.
C15_Witness ==
    /\ bphase = "queried"
    /\ \E c \in QueryCalls :
          /\ c.id % 2 = 1 /\ c.id # Root
          /\ Lt(c.t_max, c.caller)
          /\ c.result.some

\* The leaves of the tree that hold primitive i.
LeavesOf(i) == { id \in DOMAIN bvh : bvh[id].leaf /\ bvh[id].prim = i }

\* C16: build never fails an unwrap; it returns none exactly when the input
\* is empty; and in the tree it returns every leaf holds one primitive of the
\* input, every interior node has its two subtrees, every node but the root
\* hangs below an interior node, and each primitive sits in exactly one leaf.
C16_TreeShape ==
    /\ bphase # "panic"
    /\ \A k \in 1..Len(stack) : stack[k].tps # << >> \/ stack[k].id = 1
    /\ Built =>
          /\ (bvh = << >>) <=> (Len(primitives) = 0)
          /\ \A id \in DOMAIN bvh :
                /\ bvh[id].leaf =>
                      /\ bvh[id].prim \in 1..Len(primitives)
                      /\ 2 * id \notin DOMAIN bvh /\ 2 * id + 1 \notin DOMAIN bvh
                /\ ~bvh[id].leaf =>
                      /\ 2 * id \in DOMAIN bvh /\ 2 * id + 1 \in DOMAIN bvh
                /\ id # 1 => (id \div 2 \in DOMAIN bvh /\ ~bvh[id \div 2].leaf)
          /\ \A i \in 1..Len(primitives) : Cardinality(LeavesOf(i)) = 1

\* C16 witness: a tree built from three or more primitives, two of them the
\* same sphere.
C16_Witness ==
    /\ bphase = "built"
    /\ Len(primitives) >= 3
    /\ primitives[1] = primitives[2]
    /\ \E id \in DOMAIN bvh : ~bvh[id].leaf /\ id # 1

\* ------------------------------------------------------------------ claims: scenes without lights

\* C17: with an empty light list trace_ray returns (0,0,0) whatever it hits
\* and draws: sample_single_light returns zero, and nothing else adds to
\* radiance (radiance changes only in the direct-lighting step, by what
\* sample_single_light returned).
C17_NoLightsNoRadiance ==
    /\ [](lights = << >> =>
            /\ radiance = <<0, 0, 0>>
            /\ nee.value = <<0, 0, 0>>
            /\ tpc = "done" => returned = <<0, 0, 0>>)
    /\ [][radiance' # radiance =>
            /\ tpc = "shade" /\ nee'.invoked
            /\ radiance' = [i \in 1..3 |->
                              radiance[i] + (throughput[i] * nee'.value[i]) \div One]]_vars

\* C17 witness: without lights a path has bounced at least once, has asked
\* for direct lighting at a surface that is not specular, and has returned.
C17_Witness ==
    /\ lights = << >>
    /\ tpc = "done" /\ ended = "declined"
    /\ hits >= 2 /\ nee.invoked
    /\ returned = Zero3

\* ------------------------------------------------------------------ claims: the empty scene

\* C11: in a frame whose scene was built from no primitive, whatever the
\* camera's size, max_depth and the lights, with one sample per pixel,
\* scene.hit answers none to every ray, no path takes up any
\* radiance, every pixel written is (0,0,0), and when render_to returns
\* every pixel has been written.
C11_EmptySceneBlack ==
    Len(primitives) = 0 =>
        /\ tpc \notin {"shade", "scatter", "roulette"}
        /\ radiance = <<0, 0, 0>> /\ returned = <<0, 0, 0>>
        /\ \A ray \in RayPool : ~Scene_hit(ray, INF).some
        /\ \A slot \in Slots :
              writes[slot] >= 1 => PixelColor(buf[slot]) = <<0, 0, 0>>
        /\ rphase = "joined" => \A slot \in Slots : writes[slot] = 1

\* C11 witness: render_to has returned from a frame of two pixels, one
\* sample each, on an empty scene with a light and max_depth above 0.
C11_Witness ==
    /\ Len(primitives) = 0 /\ bphase = "built"
    /\ rphase = "joined"
    /\ pixel_width = 2 /\ samples_per_pixel = 1
    /\ max_depth >= 1 /\ lights # << >>
    /\ \A slot \in Slots : PixelColor(buf[slot]) = Zero3

\* ------------------------------------------------------------------ claims: materials

\* C12: a Dielectric's scatter has attenuation 1 when it reflects (total
\* internal reflection included) and attenuation eta^2 when it refracts,
\* eta being 1/refractive_index on the Outside and refractive_index on the
\* Inside, and its sample is always tagged Delta.  The refracted direction is
\* the one that points below the surface.
C12_DielectricAttenuation ==
    mpc = "scattered" =>
        LET eta == refractive_ratio(margs.refractive_index, margs.side)
            attenuation == mret.scatter.attenuation
        IN  /\ mret.sample.some /\ mret.sample.pdf = Delta
            /\ REq(eta, IF margs.side = "Outside"
                        THEN Ratio(margs.refractive_index.d, margs.refractive_index.n)
                        ELSE margs.refractive_index)
            /\ ~mret.scatter.dir.zneg =>
                   \A i \in Axes : REq(attenuation[i], Ratio(1, 1))
            /\ mret.scatter.dir.zneg =>
                   \A i \in Axes : REq(attenuation[i], RSquare(eta))

\* C13: for the Diffuse material, pdf(shading, incoming) is
\* cos_theta(incoming) / pi when incoming and outgoing lie in the same
\* hemisphere and 0 otherwise, and it is the density sample_bsdf assigns:
\* for the direction d that sample_bsdf returned with Pdf::Real(p),
\* pdf(shading, d) = p.
C13_DiffusePdfIsSampledDensity ==
    mpc = "evaluated" =>
        /\ PiEq(mret.p,
                IF same_hemisphere(mret.incoming, margs.outgoing)
                THEN PiNum(cos_theta(mret.incoming), 1)
                ELSE PiNum(0, 0))
        /\ (mret.incoming = mret.sample.dir /\ mret.sample.pdf.kind = "real")
               => PiEq(mret.p, mret.sample.pdf.val)

\* ------------------------------------------------------------------ claims: configuration

\* C14: an invalid configuration (width or height zero, a negative
\* aperture, a vfov or an aperture that is not finite) is rejected at the
\* boundary: no camera is constructed and no pixel is rendered for it, and
\* the program does not exit with code 0.
C14_InvalidConfigRejected ==
    (\/ args.width = 0 \/ args.height = 0
     \/ Lt(args.aperture, Num(0))
     \/ ~IsFinite(args.vfov) \/ ~IsFinite(args.aperture))
        => /\ ~camera.some
           /\ rendered = 0
           /\ exit_code # 0

====
